---- MODULE Spec2Model ----
(***************************************************************************)
(* A model of GmailCheckSkill (src/gmail_check_skill.py): the one-shot     *)
(* CheckRun, the deduplication cache and its file, and the background      *)
(* monitoring loop with its start/stop lifecycle.                          *)
(*                                                                         *)
(* One foreground caller (the MCP server calls execute synchronously) and  *)
(* one thread object per start.  Strings are sequences of one-character    *)
(* strings, so that case folding and substring search are computed.        *)
(***************************************************************************)
EXTENDS Integers, Sequences, FiniteSets, TLC

\* ------------------------------------------------------------------ bounds
\* Number of execute(background_mode=True) calls, i.e. of thread objects.
MaxStarts == 2
\* Number of interval waits one loop lets time out (periodic CheckRuns).
MaxRuns == 1
\* Number of one-shot execute calls made while monitoring loops may run.
MaxCalls == 1
\* Number of messages the mail store ever holds while loops may run.
MaxMail == 1
\* The same two for a caller that makes one-shot calls only.
SeqCalls == 2
SeqMail == 4
\* Length of the headers a matcher is called with on its own.
MaxLen == 4
\* Number of parts of a multipart message whose content is extracted.
MaxParts == 3

VARIABLES
    nmail,        \* the mail store holds messages 1..nmail, oldest first
    cacheFile,    \* .gmail_check_cache.json: [kind, map]
    lockHolder,   \* _cache_lock: -1 free, 0 the caller, or a thread id
    stopFlag,     \* _stop_monitoring (threading.Event)
    monThread,    \* _monitoring_thread: 0 is None, else a thread id
    nthreads,     \* thread objects created so far
    tpc,          \* per thread: position in monitoring_loop
    tcfg,         \* per thread: the closure's parameters
    tproc,        \* per thread: the loop's processed_emails
    tmatched,     \* per thread: matched_emails of the run being published
    nchecks,      \* per thread: _check_emails calls begun
    nwaits,       \* per thread: interval waits that timed out
    ctxLatest,    \* ctx["skill:gmail_check:latest_results"]
    cpc,          \* the foreground caller's position
    ccfg,         \* the running execute call's parameters
    cproc,        \* execute's processed_emails
    cmatched,     \* execute's matched_emails
    cseen,        \* how many messages the store held when execute searched it
    ncalls,       \* one-shot calls made
    prevShot,     \* the last one-shot call that returned: its parameters
    ret,          \* what the call that returned in the last step returned
    lastRun,      \* the CheckRun that ended in the last step
    probe         \* a method called on its own: its arguments and its result

vars == <<nmail, cacheFile, lockHolder, stopFlag, monThread, nthreads,
          tpc, tcfg, tproc, tmatched, nchecks, nwaits, ctxLatest,
          cpc, ccfg, cproc, cmatched, cseen, ncalls, prevShot, ret,
          lastRun, probe>>

Threads == 1..MaxStarts

\* ----------------------------------------------------------------- strings
UpperChars == <<"A","B","C","D","E","F","G","H","I","J","K","L","M",
                "N","O","P","Q","R","S","T","U","V","W","X","Y","Z">>
LowerChars == <<"a","b","c","d","e","f","g","h","i","j","k","l","m",
                "n","o","p","q","r","s","t","u","v","w","x","y","z">>

\* str.lower() on one character
LowerChar(c) ==
    IF \E i \in 1..26 : UpperChars[i] = c
    THEN LowerChars[CHOOSE i \in 1..26 : UpperChars[i] = c]
    ELSE c

\* str.upper() on one character
UpperChar(c) ==
    IF \E i \in 1..26 : LowerChars[i] = c
    THEN UpperChars[CHOOSE i \in 1..26 : LowerChars[i] = c]
    ELSE c

Lower(s) == [i \in 1..Len(s) |-> LowerChar(s[i])]
Upper(s) == [i \in 1..Len(s) |-> UpperChar(s[i])]

\* c in s
HasChar(s, c) == \E i \in 1..Len(s) : s[i] = c

\* s.split(c)[0]: the part before the first c, or all of s
BeforeFirst(s, c) ==
    IF HasChar(s, c)
    THEN SubSeq(s, 1, (CHOOSE i \in 1..Len(s) :
                          s[i] = c /\ \A j \in 1..(i-1) : s[j] # c) - 1)
    ELSE s

\* the text after the first c (s has one)
AfterFirst(s, c) ==
    SubSeq(s, (CHOOSE i \in 1..Len(s) :
                  s[i] = c /\ \A j \in 1..(i-1) : s[j] # c) + 1, Len(s))

\* s.split(c)[1]: between the first c and the next one
SplitSecond(s, c) == BeforeFirst(AfterFirst(s, c), c)

\* str.strip() for blanks
Strip(s) ==
    IF \A i \in 1..Len(s) : s[i] = " " THEN <<>>
    ELSE LET a == CHOOSE i \in 1..Len(s) :
                      s[i] # " " /\ \A j \in 1..(i-1) : s[j] = " "
             b == CHOOSE i \in 1..Len(s) :
                      s[i] # " " /\ \A j \in (i+1)..Len(s) : s[j] = " "
         IN SubSeq(s, a, b)

\* p in s (substring)
Contains(s, p) ==
    \E i \in 1..(Len(s) - Len(p) + 1) : SubSeq(s, i, i + Len(p) - 1) = p

\* A _match_sender that compares the address as written.
MatchSenderAsWritten(sender, filter_sender) ==
    IF sender = <<>> THEN FALSE
    ELSE IF HasChar(sender, "<") /\ HasChar(sender, ">")
         THEN Strip(BeforeFirst(SplitSecond(sender, "<"), ">"))
                 = Lower(filter_sender)
         ELSE Strip(sender) = Lower(filter_sender)

\* ----------------------------------------------------------------- matcher
\* A missing header (Python None) is the empty sequence: "not sender" holds
\* of both.  \E over a one-element set names an intermediate value, as the
\* local variables of the Python do.
_match_sender(sender, filter_sender) ==
    IF sender = <<>> THEN FALSE
    ELSE \E s \in {sender}, f \in {filter_sender} :
           IF HasChar(s, "<") /\ HasChar(s, ">")
           THEN \E inner \in {SplitSecond(s, "<")} :
                \E email_part \in {Strip(BeforeFirst(inner, ">"))} :
                   Lower(email_part) = Lower(f)
           ELSE \E email_part \in {Strip(s)} :
                   Lower(email_part) = Lower(f)

\* A _match_subject that looks for the pattern as written.
MatchSubjectAsWritten(subject, subject_pattern) ==
    IF subject = <<>> THEN FALSE
    ELSE Contains(Lower(subject), subject_pattern)

_match_subject(subject, subject_pattern) ==
    IF subject = <<>> THEN FALSE
    ELSE \E s \in {Lower(subject)}, p \in {Lower(subject_pattern)} :
           Contains(s, p)

\* ---------------------------------------------------------------- messages
AddrAB == <<"a","@","b">>
FromNameAB == <<"N"," ","<","a","@","b",">">>
FromNameXY == <<"N"," ","<","x","@","y",">">>
SubjTest == <<"A"," ","T","E","S","T">>
PatTest == <<"t","e","s","t">>
PatHi == <<"h","i">>
PatA == <<"a">>

\* The i-th message of the mail store.  mid and date are the Message-ID and
\* Date headers; bad says the RFC822 body fetch of this message raises.
Msg(i) ==
    CASE i % 4 = 1 -> [sender |-> FromNameAB, subject |-> SubjTest,
                       mid |-> i, date |-> 1, bad |-> FALSE]
      [] i % 4 = 2 -> [sender |-> FromNameXY, subject |-> SubjTest,
                       mid |-> i, date |-> 1, bad |-> FALSE]
      [] i % 4 = 3 -> [sender |-> AddrAB, subject |-> PatTest,
                       mid |-> i, date |-> 1, bad |-> TRUE]
      [] OTHER     -> [sender |-> Upper(AddrAB), subject |-> SubjTest,
                       mid |-> i - 3, date |-> 1, bad |-> FALSE]

\* hashlib.md5(f"{message_id}{date_received}"): one value per header pair
Fingerprint(m) == <<m.mid, m.date>>

\* email_filters, in the dict's order
FilterAB == << [sender |-> AddrAB, subjects |-> <<PatTest>>] >>
FilterABHi == << [sender |-> AddrAB, subjects |-> <<PatHi, PatTest>>] >>
FilterXY == << [sender |-> <<"x","@","y">>, subjects |-> <<PatTest>>] >>
\* two patterns that both occur in "A TEST"
FilterABTwo == << [sender |-> AddrAB, subjects |-> <<PatTest, PatA>>] >>
\* two keys that differ in case only: both match the sender a@b, the
\* patterns of the first occur in "A TEST", the pattern of the second does not
FilterCase == << [sender |-> AddrAB, subjects |-> <<PatTest, PatA>>],
                 [sender |-> Upper(AddrAB), subjects |-> <<PatHi>>] >>

EmptyMap == [x \in {} |-> 0]

\* ---------------------------------------------------------------- CheckRun
\* message_list: the store's answer, oldest first; when it is longer than
\* max_emails it is cut by the slice [-max_emails:].  For max_emails >= 1
\* that is the last max_emails entries; -0 is 0, so [-0:] is the whole list;
\* for a negative max_emails the slice starts -max_emails entries from the
\* front.
Candidates(n, max_emails) ==
    IF n > max_emails
    THEN LET first == IF max_emails > 0 THEN n - max_emails + 1
                      ELSE 1 - max_emails
             len == IF first > n THEN 0 ELSE n - first + 1
         IN [k \in 1..len |-> first + k - 1]
    ELSE [k \in 1..n |-> k]

\* A filter loop that leaves an entry's patterns at the first one that
\* matches.
RECURSIVE EvalFiltersFirstHit(_, _, _, _)
EvalFiltersFirstHit(m, filters, k, acc) ==
    IF k > Len(filters) THEN acc
    ELSE LET f == filters[k]
             all == SelectSeq(f.subjects,
                              LAMBDA p : _match_subject(m.subject, p))
             hits == IF all = <<>> THEN <<>> ELSE <<all[1]>>
         IN IF _match_sender(m.sender, f.sender)
            THEN EvalFiltersFirstHit(m, filters, k + 1,
                     [match_found |-> acc.match_found \/ hits # <<>>,
                      matched_sender |-> f.sender,
                      matched_subjects |-> acc.matched_subjects \o hits])
            ELSE EvalFiltersFirstHit(m, filters, k + 1, acc)

\* The filter loop of one candidate: every entry is evaluated, matched_sender
\* is overwritten by each entry whose sender matches, matched_subjects grows.
RECURSIVE EvalFilters(_, _, _, _)
EvalFilters(m, filters, k, acc) ==
    IF k > Len(filters) THEN acc
    ELSE LET f == filters[k]
             hits == SelectSeq(f.subjects,
                               LAMBDA p : _match_subject(m.subject, p))
         IN IF _match_sender(m.sender, f.sender)
            THEN EvalFilters(m, filters, k + 1,
                     [match_found |-> acc.match_found \/ hits # <<>>,
                      matched_sender |-> f.sender,
                      matched_subjects |-> acc.matched_subjects \o hits])
            ELSE EvalFilters(m, filters, k + 1, acc)

NoMatch == [match_found |-> FALSE, matched_sender |-> <<>>,
            matched_subjects |-> <<>>]

\* The for loop's body without the cache test: every candidate is evaluated.
ProcessOneNoSkip(run, num, cfg, now) ==
    LET m == Msg(num)
        email_id == Fingerprint(m)
        e == EvalFilters(m, cfg.filters, 1, NoMatch)
        seen == [run EXCEPT !.evaluated = @ \cup {num}]
    IN IF ~e.match_found \/ m.bad THEN seen
       ELSE [seen EXCEPT
               !.fetched = @ \cup {num},
               !.matched = Append(@,
                   [num |-> num, email_id |-> email_id,
                    matched_sender_filter |-> e.matched_sender,
                    matched_subject_filters |-> e.matched_subjects]),
               !.processed = (email_id :> now) @@ @]

\* The body of the for loop for candidate number num.  run carries
\* matched_emails and processed_emails, and logs which candidates had their
\* filters evaluated and their body fetched.
ProcessOne(run, num, cfg, now) ==
    LET m == Msg(num)
        email_id == Fingerprint(m)
    IN IF cfg.use_cache /\ email_id \in DOMAIN run.processed
       THEN [run EXCEPT !.skipped = @ \cup {num}]
       ELSE LET e == EvalFilters(m, cfg.filters, 1, NoMatch)
                seen == [run EXCEPT !.evaluated = @ \cup {num}]
            IN IF ~e.match_found THEN seen
               ELSE IF m.bad
               THEN [seen EXCEPT !.fetched = @ \cup {num}]
               ELSE [seen EXCEPT
                       !.fetched = @ \cup {num},
                       !.matched = Append(@,
                           [num |-> num, email_id |-> email_id,
                            matched_sender_filter |-> e.matched_sender,
                            matched_subject_filters |-> e.matched_subjects]),
                       !.processed = (email_id :> now) @@ @]

\* A for loop without the try around its body: the first candidate whose
\* body fetch fails ends the loop.
RECURSIVE ProcessFromUntilFailure(_, _, _, _, _, _)
ProcessFromUntilFailure(run, list, k, upto, cfg, now) ==
    IF k > upto THEN run
    ELSE LET next == ProcessOne(run, list[k], cfg, now)
         IN IF Msg(list[k]).bad /\ list[k] \in next.fetched THEN next
            ELSE ProcessFromUntilFailure(next, list, k + 1, upto, cfg, now)

\* The for loop over message_list, from its k-th candidate to candidate upto.
RECURSIVE ProcessFrom(_, _, _, _, _, _)
ProcessFrom(run, list, k, upto, cfg, now) ==
    IF k > upto THEN run
    ELSE ProcessFrom(ProcessOne(run, list[k], cfg, now), list, k + 1, upto,
                     cfg, now)

\* _check_emails on a store of n messages.  failAt < 0: the session works and
\* the run returns.  failAt = k >= 0: the connection fails once k candidates
\* have been handled (k = 0: login fails) and the call raises; the mutations
\* of processed_emails made until then stay in the caller's dictionary.
_check_emails(n, cfg, processed, now, failAt) ==
    LET list == Candidates(n, cfg.max_emails)
        start == [matched |-> <<>>, processed |-> processed,
                  skipped |-> {}, evaluated |-> {}, fetched |-> {},
                  inspected |-> <<>>, raised |-> FALSE]
    IN IF failAt < 0
       THEN [ProcessFrom(start, list, 1, Len(list), cfg, now)
                EXCEPT !.inspected = list]
       ELSE [ProcessFrom(start, list, 1, failAt, cfg, now)
                EXCEPT !.inspected = SubSeq(list, 1, failAt),
                       !.raised = TRUE, !.matched = <<>>]

\* the failAt values of a store of n messages
FailPoints(n, cfg) == 0..Len(Candidates(n, cfg.max_emails))

\* ------------------------------------------------------------------- cache
\* The cache file: missing, corrupt (no valid JSON, as a file cut by
\* open(..., 'w') and not yet written), or ok with its mapping.
FileMissing == [kind |-> "missing", map |-> EmptyMap]
FileCorrupt == [kind |-> "corrupt", map |-> EmptyMap]
FileOk(m) == [kind |-> "ok", map |-> m]
\* A path that exists and that open() refuses for reading and for writing
\* (a directory, a file of another user).
FileUnreadable == [kind |-> "unreadable", map |-> EmptyMap]
\* A JSON value that is not a string, as the 1 of {"k": 1}.
NotAString == -1
\* Valid JSON that is no object of strings: json.load gives value v.
FileOther(v) == [kind |-> "other", map |-> v]
\* A JSON object of strings that another program wrote, by its members in
\* the order of the file: a key may occur more than once.
FileJson(members) == [kind |-> "json", map |-> EmptyMap, members |-> members]

\* json.load of an object: a dict in which the last member of a key wins.
ParseObject(members) ==
    [k \in {members[i][1] : i \in DOMAIN members} |->
        members[CHOOSE i \in DOMAIN members :
                   /\ members[i][1] = k
                   /\ \A j \in DOMAIN members : members[j][1] = k => j <= i][2]]

\* A load that never reads the file.
LoadCacheAlwaysEmpty(file) == EmptyMap

\* _load_cache: what json.load returns, {} when the file is missing, cannot
\* be opened or cannot be parsed
_load_cache(file) ==
    CASE file.kind = "ok" -> file.map
      [] file.kind = "other" -> file.map
      [] file.kind = "json" -> ParseObject(file.members)
      [] OTHER -> EmptyMap

\* The file json.dump(v) writes: an object of strings when v is one.
Written(v) ==
    IF \A k \in DOMAIN v : v[k] # NotAString THEN FileOk(v) ELSE FileOther(v)

\* A save that opens the file for appending.
SavedAppending(file, v) ==
    CASE file.kind = "unreadable" -> file
      [] file.kind = "missing" -> Written(v)
      [] OTHER -> FileCorrupt

\* The file after _save_cache(v) has returned: open(..., 'w') cuts it and
\* json.dump writes v; when open raises, the error is printed and the file
\* stays as it is.
Saved(file, v) ==
    IF file.kind = "unreadable" THEN file ELSE Written(v)

\* ------------------------------------------------------------------ inputs
\* The parameters of an execute call that passed validation.
Cfg(use_cache, max_emails, filters) ==
    [use_cache |-> use_cache, max_emails |-> max_emails, filters |-> filters]

\* kwargs.get("max_emails", 100)
DefaultMaxEmails == 100

\* the range the tool's schema declares for max_emails
SchemaMinMaxEmails == 1
SchemaMaxMaxEmails == 1000

\* The calls of the concurrent specification.
Cfgs == {Cfg(u, DefaultMaxEmails, FilterAB) : u \in BOOLEAN}

\* The calls of the sequential specification: caps and filters vary too.
\* execute takes max_emails as the caller gave it: 0 is among the values.
SeqCfgs ==
    {Cfg(u, k, f) : u \in BOOLEAN, k \in {1, SeqMail},
                    f \in {FilterAB, FilterXY}}
    \cup {Cfg(u, SeqMail, f) : u \in BOOLEAN, f \in {FilterABTwo, FilterCase}}
    \cup {Cfg(u, k, FilterAB) : u \in BOOLEAN, k \in {0, 2}}

NoCfg == Cfg(FALSE, 1, <<>>)

NoRet == [op |-> "none", success |-> FALSE, matched |-> <<>>,
          background_mode |-> FALSE, error |-> "", cfg |-> NoCfg,
          seen |-> 0, prev |-> <<>>]

NoRun == [who |-> -1, cfg |-> NoCfg, cache_in |-> EmptyMap,
          run |-> _check_emails(0, NoCfg, EmptyMap, 0, -1)]

\* No method has been called on its own.
NoProbe == [fn |-> "none"]

\* A step that returns nothing to the caller and ends no CheckRun.
Quiet == ret' = NoRet /\ lastRun' = NoRun

\* A thread object is alive between start() and the end of monitoring_loop.
Alive(t) == t # 0 /\ tpc[t] \notin {"unstarted", "done"}

AliveThreads == {t \in Threads : tpc[t] \notin {"unstarted", "done"}}

RECURSIVE ChecksBegun(_)
ChecksBegun(t) == IF t = 0 THEN 0 ELSE nchecks[t] + ChecksBegun(t - 1)

\* datetime.now(): the clock moves with every CheckRun that begins.
Now == ncalls + ChecksBegun(MaxStarts)

\* -------------------------------------------------------------------- Init
\* The skill object as __init__ leaves it, no call made yet.
Constructed ==
    /\ nmail = 0
    /\ lockHolder = -1
    /\ stopFlag = FALSE
    /\ monThread = 0
    /\ nthreads = 0
    /\ tpc = [t \in Threads |-> "unstarted"]
    /\ tcfg = [t \in Threads |-> NoCfg]
    /\ tproc = [t \in Threads |-> EmptyMap]
    /\ tmatched = [t \in Threads |-> <<>>]
    /\ nchecks = [t \in Threads |-> 0]
    /\ nwaits = [t \in Threads |-> 0]
    /\ ctxLatest = <<>>
    /\ cpc = "idle"
    /\ ccfg = NoCfg
    /\ cproc = EmptyMap
    /\ cmatched = <<>>
    /\ cseen = 0
    /\ ncalls = 0
    /\ prevShot = <<>>
    /\ ret = NoRet
    /\ lastRun = NoRun

Init ==
    /\ Constructed
    /\ cacheFile \in {FileMissing, FileOk(Fingerprint(Msg(1)) :> 0)}
    /\ probe = NoProbe

threadVars == <<tpc, tcfg, tproc, tmatched, nchecks, nwaits>>
monVars == <<stopFlag, monThread, nthreads>>
callerVars == <<cpc, ccfg, cproc, cmatched, cseen, ncalls, prevShot>>
fileVars == <<cacheFile, lockHolder>>

\* ------------------------------------------------------------- environment
\* A new message reaches the mailbox, which holds at most bound messages.
Arrive(bound) ==
    /\ nmail < bound
    /\ nmail' = nmail + 1
    /\ Quiet
    /\ UNCHANGED <<fileVars, monVars, threadVars, ctxLatest, callerVars,
                   probe>>

\* ------------------------------------------------- execute, one-shot mode
\* What a one-shot execute returns, with what the call before it was.
\* A success envelope carries total_matched and the statistics, an error
\* envelope has neither.
ShotRet(success, matched, error) ==
    [op |-> "oneshot", success |-> success, matched |-> matched,
     background_mode |-> FALSE, error |-> error, cfg |-> ccfg,
     seen |-> cseen, prev |-> prevShot,
     statistics |-> IF success
                    THEN << [total_matched |-> Len(matched),
                             emails_checked |-> Len(matched),
                             cache_size |-> Cardinality(DOMAIN cproc)] >>
                    ELSE <<>>]

\* The memo of a returning one-shot call, kept while the caller can make
\* another one.
ShotMemo(saved) ==
    IF ncalls < SeqCalls
    THEN << [cfg |-> ccfg, seen |-> cseen, saved |-> saved,
             total_matched |-> Len(cmatched)] >>
    ELSE <<>>

\* execute(background_mode=False) up to the call of _check_emails: the
\* parameters pass validation and the cache is loaded when use_cache is set.
ExecuteOneShot(cfgs, bound) ==
    \E cfg \in cfgs :
        /\ cpc = "idle"
        /\ ncalls < bound
        /\ cpc' = "os_check"
        /\ ccfg' = cfg
        /\ cproc' = IF cfg.use_cache THEN _load_cache(cacheFile) ELSE EmptyMap
        /\ cmatched' = <<>>
        /\ ncalls' = ncalls + 1
        /\ Quiet
        /\ UNCHANGED <<nmail, fileVars, monVars, threadVars, ctxLatest,
                       cseen, prevShot, probe>>

\* The one-shot _check_emails returns its matches.
OneShotCheckReturns ==
    /\ cpc = "os_check"
    /\ LET run == _check_emails(nmail, ccfg, cproc, Now, -1)
       IN /\ cproc' = run.processed
          /\ cmatched' = run.matched
          /\ lastRun' = [who |-> 0, cfg |-> ccfg, cache_in |-> cproc,
                         run |-> run]
    /\ cseen' = nmail
    /\ cpc' = "os_save"
    /\ ret' = NoRet
    /\ UNCHANGED <<nmail, fileVars, monVars, threadVars, ctxLatest, ccfg,
                   ncalls, prevShot, probe>>

\* An execute that answers a connection error with the success envelope of
\* a run that found nothing.
OneShotCheckRaisesMasked ==
    /\ cpc = "os_check"
    /\ \E k \in FailPoints(nmail, ccfg) :
          lastRun' = [who |-> 0, cfg |-> ccfg, cache_in |-> cproc,
                      run |-> _check_emails(nmail, ccfg, cproc, Now, k)]
    /\ cproc' = EmptyMap
    /\ cmatched' = <<>>
    /\ cseen' = 0
    /\ ret' = ShotRet(TRUE, <<>>, "")
    /\ prevShot' = ShotMemo(FALSE)
    /\ ccfg' = NoCfg
    /\ cpc' = "idle"
    /\ UNCHANGED <<nmail, fileVars, monVars, threadVars, ctxLatest, ncalls,
                   probe>>

\* The one-shot _check_emails raises "Gmail connection error"; execute's
\* except clause turns it into a failure envelope, _save_cache is not reached
\* and the call's locals are gone.
OneShotCheckRaises ==
    /\ cpc = "os_check"
    /\ \E k \in FailPoints(nmail, ccfg) :
          lastRun' = [who |-> 0, cfg |-> ccfg, cache_in |-> cproc,
                      run |-> _check_emails(nmail, ccfg, cproc, Now, k)]
    /\ cproc' = EmptyMap
    /\ cmatched' = <<>>
    /\ cseen' = 0
    /\ ret' = ShotRet(FALSE, <<>>, "execution_error")
    /\ prevShot' = ShotMemo(FALSE)
    /\ ccfg' = NoCfg
    /\ cpc' = "idle"
    /\ UNCHANGED <<nmail, fileVars, monVars, threadVars, ctxLatest, ncalls,
                   probe>>

\* A _save_cache that opens the file without waiting for _cache_lock.
OneShotSaveOpenNoLock ==
    /\ cpc = "os_save"
    /\ lockHolder' = 0
    /\ cacheFile' = FileCorrupt
    /\ cpc' = "os_dump"
    /\ Quiet
    /\ UNCHANGED <<nmail, monVars, threadVars, ctxLatest, ccfg, cproc,
                   cmatched, cseen, ncalls, prevShot, probe>>

\* _save_cache takes _cache_lock and opens the file for writing, which cuts
\* it to length 0.
OneShotSaveOpen ==
    /\ cpc = "os_save"
    /\ lockHolder = -1
    /\ lockHolder' = 0
    /\ cacheFile' = FileCorrupt
    /\ cpc' = "os_dump"
    /\ Quiet
    /\ UNCHANGED <<nmail, monVars, threadVars, ctxLatest, ccfg, cproc,
                   cmatched, cseen, ncalls, prevShot, probe>>

\* A save that leaves the file alone when the call had use_cache=False.
OneShotSaveDumpIfCache ==
    /\ cpc = "os_dump"
    /\ cacheFile' = IF ccfg.use_cache THEN FileOk(cproc) ELSE cacheFile
    /\ lockHolder' = -1
    /\ ret' = ShotRet(TRUE, cmatched, "")
    /\ lastRun' = NoRun
    /\ prevShot' = ShotMemo(TRUE)
    /\ cproc' = EmptyMap
    /\ cmatched' = <<>>
    /\ cseen' = 0
    /\ ccfg' = NoCfg
    /\ cpc' = "idle"
    /\ UNCHANGED <<nmail, monVars, threadVars, ctxLatest, ncalls, probe>>

\* json.dump writes the mapping, the lock is released and execute returns
\* the success envelope.
OneShotSaveDump ==
    /\ cpc = "os_dump"
    /\ cacheFile' = FileOk(cproc)
    /\ lockHolder' = -1
    /\ ret' = ShotRet(TRUE, cmatched, "")
    /\ lastRun' = NoRun
    /\ prevShot' = ShotMemo(TRUE)
    /\ cproc' = EmptyMap
    /\ cmatched' = <<>>
    /\ cseen' = 0
    /\ ccfg' = NoCfg
    /\ cpc' = "idle"
    /\ UNCHANGED <<nmail, monVars, threadVars, ctxLatest, ncalls, probe>>

\* "not username or not app_password or not email_filters": None, "" and {}
\* are all falsy, and all are the empty sequence here.
MissingRequired(username, app_password, email_filters) ==
    username = <<>> \/ app_password = <<>> \/ email_filters = <<>>

\* username and app_password as a caller may give them
Credentials == {<<>>, <<"x">>}

\* An execute that validates only after the background branch has told the
\* running loop to stop.
ExecuteInvalidAfterStop ==
    \E username \in Credentials, app_password \in Credentials,
       email_filters \in {<<>>, FilterAB}, background_mode \in BOOLEAN :
        /\ cpc = "idle"
        /\ MissingRequired(username, app_password, email_filters)
        /\ stopFlag' = IF background_mode /\ Alive(monThread) THEN TRUE
                       ELSE stopFlag
        /\ ret' = [NoRet EXCEPT !.op = "invalid",
                                !.error = "validation_error"]
        /\ lastRun' = NoRun
        /\ UNCHANGED <<nmail, fileVars, monThread, nthreads, threadVars,
                       ctxLatest, callerVars, probe>>

\* execute with username, app_password or email_filters missing or empty, in
\* either mode: the validation returns before anything else is done.
ExecuteInvalid ==
    \E username \in Credentials, app_password \in Credentials,
       email_filters \in {<<>>, FilterAB}, background_mode \in BOOLEAN :
        /\ cpc = "idle"
        /\ MissingRequired(username, app_password, email_filters)
        /\ ret' = [NoRet EXCEPT !.op = "invalid",
                                !.error = "validation_error"]
        /\ lastRun' = NoRun
        /\ UNCHANGED <<nmail, fileVars, monVars, threadVars, ctxLatest,
                       callerVars, probe>>

\* --------------------------------------------------------- monitoring_loop
\* A loop that starts with the interval wait instead of a first check.
LoopLoadThenWait(t) ==
    /\ tpc[t] = "load"
    /\ tproc' = [tproc EXCEPT ![t] = IF tcfg[t].use_cache
                                     THEN _load_cache(cacheFile)
                                     ELSE EmptyMap]
    /\ tpc' = [tpc EXCEPT ![t] = "test"]
    /\ Quiet
    /\ UNCHANGED <<nmail, fileVars, monVars, tcfg, tmatched, nchecks, nwaits,
                   ctxLatest, callerVars, probe>>

\* processed_emails = self._load_cache() if use_cache else {}
LoopLoad(t) ==
    /\ tpc[t] = "load"
    /\ tproc' = [tproc EXCEPT ![t] = IF tcfg[t].use_cache
                                     THEN _load_cache(cacheFile)
                                     ELSE EmptyMap]
    /\ tpc' = [tpc EXCEPT ![t] = "initial"]
    /\ Quiet
    /\ UNCHANGED <<nmail, fileVars, monVars, tcfg, tmatched, nchecks, nwaits,
                   ctxLatest, callerVars, probe>>

\* The loop calls _check_emails: the first check right after the load, a
\* periodic one after a wait that timed out.
LoopBeginCheck(t) ==
    /\ tpc[t] \in {"initial", "periodic"}
    /\ tpc' = [tpc EXCEPT ![t] = "checking"]
    /\ nchecks' = [nchecks EXCEPT ![t] = @ + 1]
    /\ Quiet
    /\ UNCHANGED <<nmail, fileVars, monVars, tcfg, tproc, tmatched, nwaits,
                   ctxLatest, callerVars, probe>>

\* A loop that saves and publishes after every run that returns.
LoopCheckReturnsAlwaysSaves(t) ==
    /\ tpc[t] = "checking"
    /\ LET run == _check_emails(nmail, tcfg[t], tproc[t], Now, -1)
       IN /\ tproc' = [tproc EXCEPT ![t] = run.processed]
          /\ tmatched' = [tmatched EXCEPT ![t] = run.matched]
          /\ tpc' = [tpc EXCEPT ![t] = "save"]
          /\ lastRun' = [who |-> t, cfg |-> tcfg[t], cache_in |-> tproc[t],
                         run |-> run]
    /\ ret' = NoRet
    /\ UNCHANGED <<nmail, fileVars, monVars, tcfg, nchecks, nwaits,
                   ctxLatest, callerVars, probe>>

\* _check_emails returns: with matches the loop goes on to save and publish,
\* without any it goes back to the while test.
LoopCheckReturns(t) ==
    /\ tpc[t] = "checking"
    /\ LET run == _check_emails(nmail, tcfg[t], tproc[t], Now, -1)
       IN /\ tproc' = [tproc EXCEPT ![t] = run.processed]
          /\ tmatched' = [tmatched EXCEPT ![t] = run.matched]
          /\ tpc' = [tpc EXCEPT ![t] = IF run.matched # <<>> THEN "save"
                                       ELSE "test"]
          /\ lastRun' = [who |-> t, cfg |-> tcfg[t], cache_in |-> tproc[t],
                         run |-> run]
    /\ ret' = NoRet
    /\ UNCHANGED <<nmail, fileVars, monVars, tcfg, nchecks, nwaits,
                   ctxLatest, callerVars, probe>>

\* A loop without its except clause: the error ends the thread.
LoopCheckRaisesUncaught(t) ==
    /\ tpc[t] = "checking"
    /\ lastRun' = [who |-> t, cfg |-> tcfg[t], cache_in |-> tproc[t],
                   run |-> _check_emails(nmail, tcfg[t], tproc[t], Now, 0)]
    /\ tpc' = [tpc EXCEPT ![t] = "done"]
    /\ ret' = NoRet
    /\ UNCHANGED <<nmail, fileVars, monVars, tcfg, tproc, tmatched, nchecks,
                   nwaits, ctxLatest, callerVars, probe>>

\* _check_emails raises: the except clause of the loop prints the error and
\* the loop goes on to the while test.  What the run had put into
\* processed_emails stays there.
LoopCheckRaises(t) ==
    /\ tpc[t] = "checking"
    /\ \E k \in FailPoints(nmail, tcfg[t]) :
          LET run == _check_emails(nmail, tcfg[t], tproc[t], Now, k)
          IN /\ tproc' = [tproc EXCEPT ![t] = run.processed]
             /\ lastRun' = [who |-> t, cfg |-> tcfg[t],
                            cache_in |-> tproc[t], run |-> run]
    /\ tpc' = [tpc EXCEPT ![t] = "test"]
    /\ ret' = NoRet
    /\ UNCHANGED <<nmail, fileVars, monVars, tcfg, tmatched, nchecks, nwaits,
                   ctxLatest, callerVars, probe>>

\* _save_cache in the loop: take the lock, open the file for writing.
LoopSaveOpen(t) ==
    /\ tpc[t] = "save"
    /\ lockHolder = -1
    /\ lockHolder' = t
    /\ cacheFile' = FileCorrupt
    /\ tpc' = [tpc EXCEPT ![t] = "dump"]
    /\ Quiet
    /\ UNCHANGED <<nmail, monVars, tcfg, tproc, tmatched, nchecks, nwaits,
                   ctxLatest, callerVars, probe>>

\* json.dump, release of the lock, then ctx.set of latest_results.
LoopSaveDump(t) ==
    /\ tpc[t] = "dump"
    /\ cacheFile' = FileOk(tproc[t])
    /\ lockHolder' = -1
    /\ ctxLatest' = << [matched_emails |-> tmatched[t],
                        total_matched |-> Len(tmatched[t]),
                        background_mode |-> TRUE] >>
    /\ tmatched' = [tmatched EXCEPT ![t] = <<>>]
    /\ tpc' = [tpc EXCEPT ![t] = "test"]
    /\ Quiet
    /\ UNCHANGED <<nmail, monVars, tcfg, tproc, nchecks, nwaits, callerVars,
                   probe>>

\* monitoring_loop returns: the thread ends and its locals are gone.
LoopEnds(t) ==
    /\ tpc' = [tpc EXCEPT ![t] = "done"]
    /\ tcfg' = [tcfg EXCEPT ![t] = NoCfg]
    /\ tproc' = [tproc EXCEPT ![t] = EmptyMap]

\* while not self._stop_monitoring.is_set()
LoopTest(t) ==
    /\ tpc[t] = "test"
    /\ IF stopFlag THEN LoopEnds(t)
       ELSE /\ tpc' = [tpc EXCEPT ![t] = "wait"]
            /\ UNCHANGED <<tcfg, tproc>>
    /\ Quiet
    /\ UNCHANGED <<nmail, fileVars, monVars, tmatched, nchecks, nwaits,
                   ctxLatest, callerVars, probe>>

\* A wait whose result is ignored: the loop checks again after it.
LoopWaitSignalledNoBreak(t) ==
    /\ tpc[t] = "wait"
    /\ stopFlag
    /\ tpc' = [tpc EXCEPT ![t] = "periodic"]
    /\ Quiet
    /\ UNCHANGED <<nmail, fileVars, monVars, tcfg, tproc, tmatched, nchecks,
                   nwaits, ctxLatest, callerVars, probe>>

\* Event.wait(check_interval * 60) returns True, the event being set: break.
LoopWaitSignalled(t) ==
    /\ tpc[t] = "wait"
    /\ stopFlag
    /\ LoopEnds(t)
    /\ Quiet
    /\ UNCHANGED <<nmail, fileVars, monVars, tmatched, nchecks, nwaits,
                   ctxLatest, callerVars, probe>>

\* Event.wait times out with the event not set and returns False.
LoopWaitTimeout(t) ==
    /\ tpc[t] = "wait"
    /\ ~stopFlag
    /\ nwaits[t] < MaxRuns
    /\ nwaits' = [nwaits EXCEPT ![t] = @ + 1]
    /\ tpc' = [tpc EXCEPT ![t] = "periodic"]
    /\ Quiet
    /\ UNCHANGED <<nmail, fileVars, monVars, tcfg, tproc, tmatched, nchecks,
                   ctxLatest, callerVars, probe>>

\* ------------------------------------------------ execute, background mode
\* execute(background_mode=True) up to the join in
\* _start_background_monitoring: a live prior thread is told to stop.
ExecuteBackground(cfgs) ==
    \E cfg \in cfgs :
        /\ cpc = "idle"
        /\ nthreads < MaxStarts
        /\ stopFlag' = IF Alive(monThread) THEN TRUE ELSE stopFlag
        /\ ccfg' = cfg
        /\ cpc' = "bg_join"
        /\ Quiet
        /\ UNCHANGED <<nmail, fileVars, monThread, nthreads, threadVars,
                       ctxLatest, cproc, cmatched, cseen, ncalls, prevShot,
                       probe>>

\* The acknowledgement of a start.
StartAck ==
    [NoRet EXCEPT !.op = "start", !.success = TRUE, !.cfg = ccfg,
                  !.background_mode = TRUE]

\* A start whose join gives up while the prior loop is in a _check_emails
\* call, as the join of stop_monitoring does.
StartSpawnJoinTimeout ==
    /\ cpc = "bg_join"
    /\ ~Alive(monThread) \/ (monThread # 0 /\ tpc[monThread] = "checking")
    /\ stopFlag' = FALSE
    /\ nthreads' = nthreads + 1
    /\ monThread' = nthreads + 1
    /\ tpc' = [tpc EXCEPT ![nthreads + 1] = "load"]
    /\ tcfg' = [tcfg EXCEPT ![nthreads + 1] = ccfg]
    /\ ret' = StartAck
    /\ lastRun' = NoRun
    /\ ccfg' = NoCfg
    /\ cpc' = "idle"
    /\ UNCHANGED <<nmail, fileVars, tproc, tmatched, nchecks, nwaits,
                   ctxLatest, cproc, cmatched, cseen, ncalls, prevShot,
                   probe>>

\* A start that leaves the event as the stop of the prior loop set it.
StartSpawnKeepsEvent ==
    /\ cpc = "bg_join"
    /\ ~Alive(monThread)
    /\ nthreads' = nthreads + 1
    /\ monThread' = nthreads + 1
    /\ tpc' = [tpc EXCEPT ![nthreads + 1] = "load"]
    /\ tcfg' = [tcfg EXCEPT ![nthreads + 1] = ccfg]
    /\ ret' = StartAck
    /\ lastRun' = NoRun
    /\ ccfg' = NoCfg
    /\ cpc' = "idle"
    /\ UNCHANGED <<nmail, fileVars, stopFlag, tproc, tmatched, nchecks,
                   nwaits, ctxLatest, cproc, cmatched, cseen, ncalls,
                   prevShot, probe>>

\* A start that has the first check begun before it returns.
StartSpawnChecksFirst ==
    /\ cpc = "bg_join"
    /\ ~Alive(monThread)
    /\ stopFlag' = FALSE
    /\ nthreads' = nthreads + 1
    /\ monThread' = nthreads + 1
    /\ tpc' = [tpc EXCEPT ![nthreads + 1] = "checking"]
    /\ nchecks' = [nchecks EXCEPT ![nthreads + 1] = 1]
    /\ tcfg' = [tcfg EXCEPT ![nthreads + 1] = ccfg]
    /\ ret' = StartAck
    /\ lastRun' = NoRun
    /\ ccfg' = NoCfg
    /\ cpc' = "idle"
    /\ UNCHANGED <<nmail, fileVars, tproc, tmatched, nwaits, ctxLatest,
                   cproc, cmatched, cseen, ncalls, prevShot, probe>>

\* join() of the prior thread has returned (or there was none to join): the
\* event is cleared, the new thread is created and started, and execute
\* returns the acknowledgement.
StartSpawn ==
    /\ cpc = "bg_join"
    /\ ~Alive(monThread)
    /\ stopFlag' = FALSE
    /\ nthreads' = nthreads + 1
    /\ monThread' = nthreads + 1
    /\ tpc' = [tpc EXCEPT ![nthreads + 1] = "load"]
    /\ tcfg' = [tcfg EXCEPT ![nthreads + 1] = ccfg]
    /\ ret' = StartAck
    /\ lastRun' = NoRun
    /\ ccfg' = NoCfg
    /\ cpc' = "idle"
    /\ UNCHANGED <<nmail, fileVars, tproc, tmatched, nchecks, nwaits,
                   ctxLatest, cproc, cmatched, cseen, ncalls, prevShot,
                   probe>>

\* ---------------------------------------------------------- stop_monitoring
StopRet(value) == [NoRet EXCEPT !.op = "stop", !.success = value]

\* A stop that sets the event whether or not a loop is running.
StopIdleSetsEvent ==
    /\ cpc = "idle"
    /\ ~Alive(monThread)
    /\ stopFlag' = TRUE
    /\ ret' = StopRet(FALSE)
    /\ lastRun' = NoRun
    /\ UNCHANGED <<nmail, fileVars, monThread, nthreads, threadVars,
                   ctxLatest, callerVars, probe>>

\* stop_monitoring with no live thread: return False.
StopIdle ==
    /\ cpc = "idle"
    /\ ~Alive(monThread)
    /\ ret' = StopRet(FALSE)
    /\ lastRun' = NoRun
    /\ UNCHANGED <<nmail, fileVars, monVars, threadVars, ctxLatest,
                   callerVars, probe>>

\* A stop that joins without setting the event.
StopSignalNoSet ==
    /\ cpc = "idle"
    /\ Alive(monThread)
    /\ cpc' = "stop_join"
    /\ Quiet
    /\ UNCHANGED <<nmail, fileVars, monVars, threadVars, ctxLatest, ccfg,
                   cproc, cmatched, cseen, ncalls, prevShot, probe>>

\* stop_monitoring with a live thread: set the event, go on to join.
StopSignal ==
    /\ cpc = "idle"
    /\ Alive(monThread)
    /\ stopFlag' = TRUE
    /\ cpc' = "stop_join"
    /\ Quiet
    /\ UNCHANGED <<nmail, fileVars, monThread, nthreads, threadVars,
                   ctxLatest, ccfg, cproc, cmatched, cseen, ncalls, prevShot,
                   probe>>

\* join(timeout=5) returns because the thread has ended: return True.
StopJoined ==
    /\ cpc = "stop_join"
    /\ ~Alive(monThread)
    /\ ret' = StopRet(TRUE)
    /\ lastRun' = NoRun
    /\ cpc' = "idle"
    /\ UNCHANGED <<nmail, fileVars, monVars, threadVars, ctxLatest, ccfg,
                   cproc, cmatched, cseen, ncalls, prevShot, probe>>

\* A stop whose join has no timeout: it returns once the thread has ended.
StopJoinNoTimeout ==
    /\ cpc = "stop_join"
    /\ ~Alive(monThread)
    /\ ret' = StopRet(TRUE)
    /\ lastRun' = NoRun
    /\ cpc' = "idle"
    /\ UNCHANGED <<nmail, fileVars, monVars, threadVars, ctxLatest, ccfg,
                   cproc, cmatched, cseen, ncalls, prevShot, probe>>

\* join(timeout=5) returns because the five seconds are over, the thread
\* being in a _check_emails call (the step of the loop that takes that
\* long): return True all the same.
StopJoinTimeout ==
    /\ cpc = "stop_join"
    /\ Alive(monThread)
    /\ tpc[monThread] = "checking"
    /\ ret' = StopRet(TRUE)
    /\ lastRun' = NoRun
    /\ cpc' = "idle"
    /\ UNCHANGED <<nmail, fileVars, monVars, threadVars, ctxLatest, ccfg,
                   cproc, cmatched, cseen, ncalls, prevShot, probe>>

\* ------------------------------------------------------- saves that fail
\* A _save_cache whose error reaches execute: the call ends in its except
\* clause.
OneShotSaveDumpFailsRaising ==
    /\ cpc = "os_dump"
    /\ lockHolder' = -1
    /\ ret' = ShotRet(FALSE, <<>>, "execution_error")
    /\ lastRun' = NoRun
    /\ prevShot' = ShotMemo(FALSE)
    /\ cproc' = EmptyMap
    /\ cmatched' = <<>>
    /\ cseen' = 0
    /\ ccfg' = NoCfg
    /\ cpc' = "idle"
    /\ UNCHANGED <<nmail, cacheFile, monVars, threadVars, ctxLatest, ncalls,
                   probe>>

\* json.dump raises after the file was cut (disk full, a value json cannot
\* write): _save_cache prints the error, the lock is released by the with
\* block, and execute returns the success envelope.
OneShotSaveDumpFails ==
    /\ cpc = "os_dump"
    /\ lockHolder' = -1
    /\ ret' = ShotRet(TRUE, cmatched, "")
    /\ lastRun' = NoRun
    /\ prevShot' = ShotMemo(FALSE)
    /\ cproc' = EmptyMap
    /\ cmatched' = <<>>
    /\ cseen' = 0
    /\ ccfg' = NoCfg
    /\ cpc' = "idle"
    /\ UNCHANGED <<nmail, cacheFile, monVars, threadVars, ctxLatest, ncalls,
                   probe>>

\* open(..., 'w') raises under the lock (no permission, no directory): the
\* file is as it was, and execute returns the success envelope.
OneShotSaveOpenFails ==
    /\ cpc = "os_save"
    /\ lockHolder = -1
    /\ ret' = ShotRet(TRUE, cmatched, "")
    /\ lastRun' = NoRun
    /\ prevShot' = ShotMemo(FALSE)
    /\ cproc' = EmptyMap
    /\ cmatched' = <<>>
    /\ cseen' = 0
    /\ ccfg' = NoCfg
    /\ cpc' = "idle"
    /\ UNCHANGED <<nmail, fileVars, monVars, threadVars, ctxLatest, ncalls,
                   probe>>

\* The same two in the loop: the error is printed inside _save_cache, the
\* loop publishes the run and goes on to the while test.
LoopSaveOpenFails(t) ==
    /\ tpc[t] = "save"
    /\ lockHolder = -1
    /\ ctxLatest' = << [matched_emails |-> tmatched[t],
                        total_matched |-> Len(tmatched[t]),
                        background_mode |-> TRUE] >>
    /\ tmatched' = [tmatched EXCEPT ![t] = <<>>]
    /\ tpc' = [tpc EXCEPT ![t] = "test"]
    /\ Quiet
    /\ UNCHANGED <<nmail, fileVars, monVars, tcfg, tproc, nchecks, nwaits,
                   callerVars, probe>>

LoopSaveDumpFails(t) ==
    /\ tpc[t] = "dump"
    /\ lockHolder' = -1
    /\ ctxLatest' = << [matched_emails |-> tmatched[t],
                        total_matched |-> Len(tmatched[t]),
                        background_mode |-> TRUE] >>
    /\ tmatched' = [tmatched EXCEPT ![t] = <<>>]
    /\ tpc' = [tpc EXCEPT ![t] = "test"]
    /\ Quiet
    /\ UNCHANGED <<nmail, cacheFile, monVars, tcfg, tproc, nchecks, nwaits,
                   callerVars, probe>>

\* ---------------------------------------------------- methods called alone
\* A caller that calls one method of the skill on its own:
\* probe holds the arguments, then the arguments and the value returned.
aloneVars == <<nmail, stopFlag, monThread, nthreads,
               tpc, tcfg, tproc, tmatched, nchecks, nwaits, ctxLatest,
               cpc, ccfg, cproc, cmatched, cseen, ncalls, prevShot, ret,
               lastRun>>
programVars == <<lockHolder, aloneVars>>

\* Every string of at most n characters out of cs.
Strs(cs, n) == UNION {[1..k -> cs] : k \in 0..n}

\* From headers and filter senders: a letter in both cases, blank, brackets.
SenderChars == {"a", "A", " ", "<", ">"}
\* Subjects and subject patterns: two letters, one in both cases.
SubjectChars == {"a", "A", "b"}

MatcherArgs ==
    {[fn |-> "args", of |-> "_match_sender", sender |-> s,
      filter_sender |-> f] :
        s \in Strs(SenderChars, MaxLen), f \in Strs({"a", "A"}, 2)}
    \cup
    {[fn |-> "args", of |-> "_match_subject", subject |-> s,
      subject_pattern |-> p] :
        s \in Strs(SubjectChars, MaxLen), p \in Strs(SubjectChars, 2)}

CallMatchSender ==
    /\ probe.fn = "args" /\ probe.of = "_match_sender"
    /\ probe' = [fn |-> "_match_sender", sender |-> probe.sender,
                 filter_sender |-> probe.filter_sender,
                 out |-> _match_sender(probe.sender, probe.filter_sender)]
    /\ UNCHANGED <<programVars, cacheFile>>

CallMatchSubject ==
    /\ probe.fn = "args" /\ probe.of = "_match_subject"
    /\ probe' = [fn |-> "_match_subject", subject |-> probe.subject,
                 subject_pattern |-> probe.subject_pattern,
                 out |-> _match_subject(probe.subject,
                                        probe.subject_pattern)]
    /\ UNCHANGED <<programVars, cacheFile>>

\* The cache files a method is called on.
CacheFiles ==
    LET k1 == Fingerprint(Msg(1))
        k2 == Fingerprint(Msg(2))
    IN {FileMissing, FileCorrupt, FileUnreadable,
        FileOther(k1 :> NotAString),
        FileJson(<< <<k1, 0>>, <<k2, 1>>, <<k1, 2>> >>),
        FileOk(EmptyMap), FileOk(k1 :> 0), FileOk((k1 :> 0) @@ (k2 :> 1))}

CacheArgs == {[fn |-> "args", of |-> "_load_cache"]}

CallLoadCache ==
    /\ probe.fn = "args" /\ probe.of = "_load_cache"
    /\ probe' = [fn |-> "_load_cache", file |-> cacheFile,
                 out |-> _load_cache(cacheFile)]
    /\ UNCHANGED <<programVars, cacheFile>>

\* _save_cache of the mapping just loaded; nothing else holds _cache_lock.
CallSaveCache ==
    /\ probe.fn = "_load_cache"
    /\ lockHolder = -1
    /\ cacheFile' = Saved(cacheFile, probe.out)
    /\ probe' = [fn |-> "_save_cache", file |-> probe.file, m |-> probe.out]
    /\ UNCHANGED programVars

\* _load_cache again, after the save.
CallLoadAgain ==
    /\ probe.fn = "_save_cache"
    /\ probe' = [fn |-> "_load_cache again", file |-> probe.file,
                 m |-> probe.m, out |-> _load_cache(cacheFile)]
    /\ UNCHANGED <<programVars, cacheFile>>

\* The lookback of a run.  A keyword argument is a number, None, or absent
\* from the call; times are in hours.
Absent == -1
None == -2
HoursPerDay == 24
DefaultDaysBack == 1
DefaultTimeRangeHours == 24

\* kwargs.get(key, default) for a key whose value in the call is v
KwargsGet(v, default) == IF v = Absent THEN default ELSE v

\* since_datetime of _check_emails
SinceDatetime(now, days_back, time_range_hours) ==
    IF time_range_hours # None
    THEN now - time_range_hours
    ELSE now - HoursPerDay * days_back

LookbackArgs ==
    {[fn |-> "args", of |-> "execute", days_back |-> d,
      time_range_hours |-> h, now |-> now] :
        d \in {Absent, 1, 7}, h \in {Absent, None, 1, 48},
        now \in {1000, 1001}}

\* execute takes days_back and time_range_hours from kwargs and hands them
\* to _check_emails, which computes the boundary from the clock.
CallExecuteLookback ==
    /\ probe.fn = "args" /\ probe.of = "execute"
    /\ probe' = [fn |-> "execute", days_back |-> probe.days_back,
                 time_range_hours |-> probe.time_range_hours,
                 now |-> probe.now,
                 out |-> SinceDatetime(
                            probe.now,
                            KwargsGet(probe.days_back, DefaultDaysBack),
                            KwargsGet(probe.time_range_hours,
                                      DefaultTimeRangeHours))]
    /\ UNCHANGED <<programVars, cacheFile>>

\* Content extraction.  A part of a message: its content type, whether its
\* Content-Disposition says attachment, and its decoded payload.
Part(type, attachment, payload) ==
    [type |-> type, attachment |-> attachment, payload |-> payload]

PartKinds ==
    {Part("text/plain", FALSE, <<"p", " ">>),
     Part("text/plain", TRUE, <<"q">>),
     Part("text/html", FALSE, <<"<", "b", ">", "h">>),
     Part("text/html", FALSE, <<"<", "i", ">", "g">>),
     Part("text/html", TRUE, <<"<", "u", ">", "k">>),
     Part("image/png", TRUE, <<"x">>)}

\* re.sub('<[^<]+?>', '', s) from position i on: a "<", then one or more
\* characters other than "<", as few as possible, then a ">" are removed.
RECURSIVE RemoveTags(_, _)
RemoveTags(s, i) ==
    IF i > Len(s) THEN <<>>
    ELSE LET ends == {j \in (i + 2)..Len(s) :
                         /\ s[j] = ">"
                         /\ \A k \in (i + 1)..(j - 1) : s[k] # "<"}
         IN IF s[i] = "<" /\ ends # {}
            THEN RemoveTags(s, (CHOOSE j \in ends : \A k \in ends : j <= k) + 1)
            ELSE <<s[i]>> \o RemoveTags(s, i + 1)

\* for part in email_message.walk(), from the k-th part on
RECURSIVE Walk(_, _, _)
Walk(parts, k, content) ==
    IF k > Len(parts) THEN content
    ELSE LET part == parts[k]
         IN IF part.type = "text/plain" /\ ~part.attachment
            THEN Walk(parts, k + 1, content \o part.payload)
            ELSE IF part.type = "text/html" /\ ~part.attachment
                    /\ content = <<>>
            THEN Walk(parts, k + 1, content \o RemoveTags(part.payload, 1))
            ELSE Walk(parts, k + 1, content)

\* _extract_email_content of a multipart message with these parts
_extract_email_content(parts) == Strip(Walk(parts, 1, <<>>))

ExtractArgs ==
    {[fn |-> "args", of |-> "_extract_email_content", parts |-> ps] :
        ps \in UNION {[1..n -> PartKinds] : n \in 1..MaxParts}}

CallExtractContent ==
    /\ probe.fn = "args" /\ probe.of = "_extract_email_content"
    /\ probe' = [fn |-> "_extract_email_content", parts |-> probe.parts,
                 out |-> _extract_email_content(probe.parts)]
    /\ UNCHANGED <<programVars, cacheFile>>

\* One thread in _save_cache(m) and another in _load_cache, as a loop that
\* saves while execute or read_resource loads.  pos is the saver's place:
\* before the open, before json.dump, or done; before is the mapping the
\* file stands for when the save begins, loaded what the load returned.
SaveRaceArgs(file) ==
    {[fn |-> "args", of |-> "_save_cache", pos |-> "open",
      before |-> _load_cache(file), m |-> m, loaded |-> <<>>] :
        m \in {EmptyMap, Fingerprint(Msg(1)) :> 5,
               (Fingerprint(Msg(1)) :> 0) @@ (Fingerprint(Msg(2)) :> 5)}}

\* with self._cache_lock: open(self._cache_file, 'w')
RaceSaveOpen ==
    /\ probe.fn = "args" /\ probe.of = "_save_cache"
    /\ probe.pos = "open"
    /\ lockHolder = -1
    /\ lockHolder' = 0
    /\ cacheFile' = IF cacheFile.kind = "unreadable" THEN cacheFile
                    ELSE FileCorrupt
    /\ probe' = [probe EXCEPT !.pos = "dump"]
    /\ UNCHANGED aloneVars

\* json.dump and the end of the with block
RaceSaveDump ==
    /\ probe.fn = "args" /\ probe.of = "_save_cache"
    /\ probe.pos = "dump"
    /\ lockHolder' = -1
    /\ cacheFile' = IF cacheFile.kind = "unreadable" THEN cacheFile
                    ELSE Written(probe.m)
    /\ probe' = [probe EXCEPT !.pos = "done"]
    /\ UNCHANGED aloneVars

\* _load_cache in the other thread, which does not take _cache_lock
RaceLoad ==
    /\ probe.fn = "args" /\ probe.of = "_save_cache"
    /\ probe.loaded = <<>>
    /\ probe' = [probe EXCEPT !.loaded = << _load_cache(cacheFile) >>]
    /\ UNCHANGED <<programVars, cacheFile>>

\* ---------------------------------------------------------- specifications
\* One caller making one-shot calls one after the other, no monitoring loop.
SeqNext ==
    \/ Arrive(SeqMail)
    \/ ExecuteOneShot(SeqCfgs, SeqCalls)
    \/ OneShotCheckReturns
    \/ OneShotCheckRaises
    \/ OneShotSaveOpen
    \/ OneShotSaveDump

SeqSpec == Init /\ [][SeqNext]_vars

\* One method called on its own on a skill that runs nothing else, or a
\* save and a load called by two threads.
CallInit ==
    /\ Constructed
    /\ \/ /\ cacheFile = FileMissing
          /\ probe \in MatcherArgs \cup LookbackArgs \cup ExtractArgs
       \/ cacheFile \in CacheFiles /\ probe \in CacheArgs
       \/ cacheFile \in CacheFiles /\ probe \in SaveRaceArgs(cacheFile)

CallAloneNext ==
    \/ CallMatchSender
    \/ CallMatchSubject
    \/ CallLoadCache
    \/ CallSaveCache
    \/ CallLoadAgain
    \/ CallExecuteLookback
    \/ CallExtractContent
    \/ RaceSaveOpen
    \/ RaceSaveDump
    \/ RaceLoad

CallSpec == CallInit /\ [][CallAloneNext]_vars

\* The steps of monitoring thread t.
LoopStep(t) ==
    \/ LoopLoad(t)
    \/ LoopBeginCheck(t)
    \/ LoopCheckReturns(t)
    \/ LoopCheckRaises(t)
    \/ LoopSaveOpen(t)
    \/ LoopSaveDump(t)
    \/ LoopTest(t)
    \/ LoopWaitSignalled(t)
    \/ LoopWaitTimeout(t)

LoopNext == \E t \in Threads : LoopStep(t)

\* The steps inside a foreground call, from its first step to its return.
CallerNext ==
    \/ OneShotCheckReturns
    \/ OneShotCheckRaises
    \/ OneShotSaveOpen
    \/ OneShotSaveDump
    \/ StartSpawn
    \/ StopJoined
    \/ StopJoinTimeout

\* The calls the foreground caller makes.
CallNext ==
    \/ ExecuteOneShot(Cfgs, MaxCalls)
    \/ ExecuteBackground(Cfgs)
    \/ ExecuteInvalid
    \/ StopIdle
    \/ StopSignal

Next == Arrive(MaxMail) \/ CallNext \/ CallerNext \/ LoopNext

Spec == Init /\ [][Next]_vars

\* The same program on a file system whose writes may fail.
SaveFails ==
    \/ OneShotSaveOpenFails
    \/ OneShotSaveDumpFails
    \/ \E t \in Threads : LoopSaveOpenFails(t)
    \/ \E t \in Threads : LoopSaveDumpFails(t)

FaultNext == Next \/ SaveFails

FaultSpec == Init /\ [][FaultNext]_vars

\* Every thread that can take a step takes one, and a foreground call that
\* can go on goes on: the interpreter schedules every runnable thread, and
\* every _check_emails call in flight is taken to end.
FairSpec ==
    /\ Spec
    /\ \A t \in Threads : WF_vars(LoopStep(t))
    /\ WF_vars(CallerNext)

\* The steps of thread t that are not the end of a _check_emails call.
LoopStepNoReturn(t) ==
    \/ LoopLoad(t)
    \/ LoopBeginCheck(t)
    \/ LoopSaveOpen(t)
    \/ LoopSaveDump(t)
    \/ LoopTest(t)
    \/ LoopWaitSignalled(t)
    \/ LoopWaitTimeout(t)

\* A mail store that may never answer: every runnable thread is scheduled
\* and a foreground call that can go on goes on, but a _check_emails call of
\* a loop need not ever end.
StallSpec ==
    /\ Spec
    /\ \A t \in Threads : WF_vars(LoopStepNoReturn(t))
    /\ WF_vars(CallerNext)

\* ------------------------------------------------------------------ claims

\* C1: at most one monitoring loop is alive at any time, and once a thread
\* has been started every thread started before it has ended: a start issued
\* while a loop runs spawns the new loop only after the old one is over.
C1_AtMostOneLoop ==
    /\ Cardinality(AliveThreads) <= 1
    /\ \A t \in Threads :
          tpc[t] # "unstarted" => \A u \in 1..(t - 1) : tpc[u] = "done"

\* C1 witness: a start has been issued while a loop is running and waits in
\* join for it.
C1_Witness == cpc = "bg_join" /\ Alive(monThread) /\ nthreads = 1 /\ stopFlag

\* C2: whenever stop_monitoring returns True, no monitoring loop thread is
\* alive at the moment it returns.
C2_StopTrueMeansJoined ==
    (ret.op = "stop" /\ ret.success) => AliveThreads = {}

\* C3: stop_monitoring called when no loop is running (before any start, or
\* after the loop has ended) returns False at once and changes neither the
\* thread handle nor the stop event.
C3_StopIdleIsNoOp ==
    [][(cpc = "idle" /\ ~Alive(monThread) /\ ret'.op = "stop")
         => /\ ret'.success = FALSE
            /\ cpc' = "idle"
            /\ monThread' = monThread
            /\ stopFlag' = stopFlag
            /\ tpc' = tpc]_vars

\* C3 witness: stop_monitoring has returned False after a loop had run and
\* ended; the event is still set from the stop that ended it.
C3_Witness ==
    /\ ret.op = "stop" /\ ~ret.success
    /\ monThread # 0 /\ tpc[monThread] = "done" /\ stopFlag

\* C4: once stop_monitoring has set the event for a running loop and joins
\* it, that loop's thread ends (every _check_emails call in flight being
\* taken to end): as at most one loop is alive, no thread is alive then.
\* And while no loop is alive none becomes alive except by the spawn of a
\* start.
C4_StopEndsLoop ==
    /\ (cpc = "stop_join" /\ Alive(monThread)) ~> (AliveThreads = {})
    /\ [][(AliveThreads = {} /\ AliveThreads' # {})
            => (cpc = "bg_join" /\ ret'.op = "start")]_vars

\* C4 witness: a loop that was told to stop during a check has ended.
C4_Witness ==
    /\ monThread # 0 /\ tpc[monThread] = "done" /\ stopFlag
    /\ nchecks[monThread] >= 1 /\ cpc = "idle"

\* C5: a loop begins its first _check_emails without any interval wait
\* before it, and its k-th check has exactly k - 1 timed-out waits before
\* it: nwaits counts only the waits that ended with the event not set.
C5_ImmediateThenPeriodic ==
    \A t \in Threads :
        /\ tpc[t] \in {"unstarted", "load", "initial"}
              => nchecks[t] = 0 /\ nwaits[t] = 0
        /\ tpc[t] = "periodic" => nchecks[t] = nwaits[t] /\ nwaits[t] >= 1
        /\ tpc[t] \in {"checking", "save", "dump", "test", "wait", "done"}
              => nchecks[t] = nwaits[t] + 1

\* C5 witness: a loop is in its second check, one timed-out wait after the
\* first.
C5_Witness == \E t \in Threads : tpc[t] = "checking" /\ nchecks[t] = 2

\* C6: a loop that leaves its interval wait with the event set ends right
\* there, and an ended loop begins no check, takes no lock and publishes
\* nothing.
C6_StopDuringWaitExits ==
    [][\A t \in Threads :
         /\ (tpc[t] = "wait" /\ stopFlag /\ tpc'[t] # "wait")
               => /\ tpc'[t] = "done"
                  /\ nchecks'[t] = nchecks[t]
                  /\ ctxLatest' = ctxLatest
                  /\ cacheFile' = cacheFile
         /\ tpc[t] = "done"
               => /\ tpc'[t] = "done"
                  /\ nchecks'[t] = nchecks[t]
                  /\ lockHolder' # t
                  /\ lastRun'.who # t]_vars

\* C6 witness: the event is set while a loop is in its interval wait.
C6_Witness == \E t \in Threads : tpc[t] = "wait" /\ stopFlag

\* C7: when _check_emails raises in a loop, in the first run or a periodic
\* one, the loop goes on to its while test; and a loop's thread ends only
\* with the stop event set.
C7_FailingRunKeepsLoop ==
    [][\A t \in Threads :
         /\ (tpc[t] = "checking" /\ lastRun'.who = t /\ lastRun'.run.raised)
               => tpc'[t] = "test"
         /\ (tpc[t] # "done" /\ tpc'[t] = "done") => stopFlag]_vars

\* C7 witness: a periodic run has just failed and the loop, not told to
\* stop, is back at its while test.
C7_Witness ==
    \E t \in Threads :
        /\ lastRun.who = t /\ lastRun.run.raised
        /\ nchecks[t] = 2 /\ tpc[t] = "test" /\ ~stopFlag

\* C8: when execute(background_mode=True) returns, it returns the success
\* acknowledgement, the new loop is alive and has not begun its first
\* _check_emails: the answer cannot depend on how that check ends.
C8_StartAcksBeforeFirstCheck ==
    ret.op = "start"
        => /\ ret.success /\ ret.background_mode
           /\ Alive(monThread)
           /\ tpc[monThread] = "load"
           /\ nchecks[monThread] = 0

\* C8 witness: a second start has been acknowledged.
C8_Witness == ret.op = "start" /\ ret.success /\ monThread = 2

\* C9: of two one-shot calls in immediate succession with use_cache=True,
\* the same parameters and a store that held the same messages at both
\* searches, the first having saved its cache, the second returns an empty
\* matched_emails list.
C9_SecondRunEmpty ==
    (/\ ret.op = "oneshot" /\ ret.success /\ ret.cfg.use_cache
     /\ ret.prev # <<>>
     /\ ret.prev[1].saved
     /\ ret.prev[1].cfg = ret.cfg
     /\ ret.prev[1].seen = ret.seen)
        => ret.matched = <<>>

\* C9 witness: such a second run has returned after a first run that reported
\* a match.
C9_Witness ==
    /\ ret.op = "oneshot" /\ ret.success /\ ret.cfg.use_cache
    /\ ret.prev # <<>>
    /\ ret.prev[1].saved
    /\ ret.prev[1].cfg = ret.cfg
    /\ ret.prev[1].seen = ret.seen
    /\ ret.prev[1].total_matched > 0

\* The candidates of the last run whose fingerprint was in the mapping the
\* run was given.
CachedCandidates ==
    {k \in 1..Len(lastRun.run.inspected) :
        Fingerprint(Msg(lastRun.run.inspected[k])) \in DOMAIN lastRun.cache_in}

\* C10: in a CheckRun with use_cache=True a candidate whose fingerprint is in
\* the supplied mapping has no filter evaluated and no body fetched, is not
\* in the result, and its entry keeps its timestamp.
C10_CachedCandidateSkipped ==
    (lastRun.who # -1 /\ lastRun.cfg.use_cache)
        => \A k \in CachedCandidates :
              LET num == lastRun.run.inspected[k]
                  fp == Fingerprint(Msg(num))
              IN /\ num \notin lastRun.run.evaluated
                 /\ num \notin lastRun.run.fetched
                 /\ \A j \in 1..Len(lastRun.run.matched) :
                       /\ lastRun.run.matched[j].num # num
                       /\ lastRun.run.matched[j].email_id # fp
                 /\ lastRun.run.processed[fp] = lastRun.cache_in[fp]

\* C10 witness: a run with use_cache=True skipped a cached candidate and
\* reported another one.
C10_Witness ==
    /\ lastRun.who # -1 /\ lastRun.cfg.use_cache
    /\ CachedCandidates # {}
    /\ lastRun.run.matched # <<>>

\* C11: in every CheckRun, whatever its use_cache flag, no two entries of the
\* returned matched_emails have the same email_id.
C11_NoDuplicateReport ==
    lastRun.who # -1
        => \A i, j \in 1..Len(lastRun.run.matched) :
              i # j => lastRun.run.matched[i].email_id
                          # lastRun.run.matched[j].email_id

\* C12: when a one-shot call returns its success envelope, and when a loop
\* has saved after a run, the cache file holds the fingerprint of every
\* message the run matched, with use_cache=False as with use_cache=True.
C12_RunSavesItsMatches ==
    [][/\ (ret'.op = "oneshot" /\ ret'.success)
            => /\ cacheFile'.kind = "ok"
               /\ \A j \in 1..Len(ret'.matched) :
                     ret'.matched[j].email_id \in DOMAIN cacheFile'.map
       /\ \A t \in Threads :
            (tpc[t] = "dump" /\ tpc'[t] # "dump")
               => /\ cacheFile'.kind = "ok"
                  /\ \A j \in 1..Len(tmatched[t]) :
                        tmatched[t][j].email_id \in DOMAIN cacheFile'.map]_vars

\* C12 witness: a one-shot call with use_cache=False has returned a match.
C12_Witness ==
    /\ ret.op = "oneshot" /\ ret.success /\ ~ret.cfg.use_cache
    /\ ret.matched # <<>>
    /\ ret.matched[1].email_id \in DOMAIN cacheFile.map

C14_AbortedRunLeavesCache ==
    (lastRun.who # -1 /\ lastRun.run.raised)
        => /\ lastRun.who \in Threads
                 => tproc[lastRun.who] = lastRun.cache_in
           /\ lastRun.who = 0 => (cpc = "idle" /\ lockHolder # 0)

\* C15: in the error scenarios of the error-consistency test (a required
\* parameter empty or None, in either mode; credentials the server rejects
\* at login) execute returns the envelope of a successful run: success is
\* True and matched_emails is empty.
C15_ErrorsReturnSuccessEnvelope ==
    (\/ ret.op = "invalid"
     \/ (lastRun.who = 0 /\ lastRun.run.raised
            /\ lastRun.run.inspected = <<>>))
        => (ret.success /\ ret.matched = <<>>)

C17_MaxEmailsClamped ==
    lastRun.who # -1
        => lastRun.cfg.max_emails \in SchemaMinMaxEmails..SchemaMaxMaxEmails

\* C18: a CheckRun that returns has inspected exactly the last
\* min(n, max_emails) of the n candidates the store listed, in the store's
\* order, and never more than max_emails.
C18_CapCorrect ==
    (lastRun.who # -1 /\ ~lastRun.run.raised)
        => LET m == lastRun.cfg.max_emails
               k == IF nmail < m THEN nmail ELSE m
           IN /\ Len(lastRun.run.inspected) <= m
              /\ lastRun.run.inspected = [i \in 1..k |-> nmail - k + i]

\* The pairs <<entry, pattern>> of the last run's filters that match message
\* num: the entry's sender matches its sender and the pattern its subject.
MatchingPairs(num) ==
    LET F == lastRun.cfg.filters
    IN {kj \in UNION {{<<k, j>> : j \in 1..Len(F[k].subjects)} :
                         k \in 1..Len(F)} :
          /\ _match_sender(Msg(num).sender, F[kj[1]].sender)
          /\ _match_subject(Msg(num).subject, F[kj[1]].subjects[kj[2]])}

\* The entries of the last run's result that report message num.
ReportsOf(num) ==
    {j \in 1..Len(lastRun.run.matched) : lastRun.run.matched[j].num = num}

\* C19: a candidate that is not skipped as cached is matched (its body is
\* fetched, and it is reported when that fetch works and the run returns)
\* iff some filter entry matches its sender and one of that entry's patterns
\* its subject; and matched_subject_filters of a reported match holds
\* exactly the patterns that matched, over all entries whose sender matched.
C19_MatchIffSenderAndSubject ==
    lastRun.who # -1
        => \A num \in lastRun.run.evaluated :
              /\ num \in lastRun.run.fetched <=> MatchingPairs(num) # {}
              /\ ReportsOf(num) # {} => num \in lastRun.run.fetched
              /\ (num \in lastRun.run.fetched /\ ~Msg(num).bad
                     /\ ~lastRun.run.raised) => ReportsOf(num) # {}
              /\ \A r \in ReportsOf(num) :
                    LET subs == lastRun.run.matched[r].matched_subject_filters
                        F == lastRun.cfg.filters
                    IN /\ {subs[i] : i \in 1..Len(subs)}
                            = {F[kj[1]].subjects[kj[2]] :
                                  kj \in MatchingPairs(num)}
                       /\ Len(subs) = Cardinality(MatchingPairs(num))

\* C19 witness: a run reported a message with two matched patterns, and
\* evaluated another message that no entry matches.
C19_Witness ==
    /\ lastRun.who # -1
    /\ \E r \in 1..Len(lastRun.run.matched) :
          lastRun.run.matched[r].matched_subject_filters = <<PatTest, PatA>>
    /\ \E num \in lastRun.run.evaluated : num \notin lastRun.run.fetched

\* C20: matched_sender_filter of every reported match names a filter entry
\* whose sender matches the message's sender and one of whose patterns
\* matched its subject.
C20_SenderFilterIsTheMatchingOne ==
    lastRun.who # -1
        => \A r \in 1..Len(lastRun.run.matched) :
              \E kj \in MatchingPairs(lastRun.run.matched[r].num) :
                 lastRun.cfg.filters[kj[1]].sender
                    = lastRun.run.matched[r].matched_sender_filter

\* How often character c occurs in s.
Count(s, c) == Cardinality({i \in 1..Len(s) : s[i] = c})

\* s has the form  name "<" addr ">" rest  with no other bracket.
DisplayNameForm(s) ==
    /\ Count(s, "<") = 1 /\ Count(s, ">") = 1
    /\ \E i, j \in 1..Len(s) : i < j /\ s[i] = "<" /\ s[j] = ">"

\* The addr of such an s, blanks around it removed.
BareAddress(s) ==
    LET i == CHOOSE i \in 1..Len(s) : s[i] = "<"
        j == CHOOSE j \in 1..Len(s) : s[j] = ">"
    IN Strip(SubSeq(s, i + 1, j - 1))

\* a and b are the same string up to the case of their letters.
SameIgnoringCase(a, b) ==
    Len(a) = Len(b) /\ \A k \in 1..Len(a) : LowerChar(a[k]) = LowerChar(b[k])

\* C21: for a filter sender f that is not empty, _match_sender(S, f) is true
\* iff the bare address of S equals f up to case, where the bare address is
\* the text between the brackets of a "Display Name <addr>" header and the
\* trimmed S when S has no pair of brackets: equal length, so no wildcard and
\* no domain match; and the result is the same for S in upper case.
C21_MatchSenderExactIgnoringCase ==
    probe.fn = "_match_sender"
        => LET S == probe.sender
               f == probe.filter_sender
           IN /\ (f # <<>> /\ DisplayNameForm(S))
                    => (probe.out <=> SameIgnoringCase(BareAddress(S), f))
              /\ (f # <<>> /\ (Count(S, "<") = 0 \/ Count(S, ">") = 0))
                    => (probe.out <=> SameIgnoringCase(Strip(S), f))
              /\ probe.out = _match_sender(Upper(S), f)

\* C21 witness: a header with a display name and a bracketed address matched
\* a filter sender written in the other case.
C21_Witness ==
    /\ probe.fn = "_match_sender" /\ probe.out
    /\ DisplayNameForm(probe.sender)
    /\ probe.sender[1] # "<"
    /\ BareAddress(probe.sender) # probe.filter_sender
    /\ Upper(probe.sender) # probe.sender

\* C22: _match_subject(subject, pattern) is true iff the subject is not empty
\* and some stretch of it equals the pattern up to the case of the letters.
C22_MatchSubjectIsSubstringIgnoringCase ==
    probe.fn = "_match_subject"
        => LET S == probe.subject
               P == probe.subject_pattern
           IN probe.out <=>
                 /\ S # <<>>
                 /\ \E i \in 0..(Len(S) - Len(P)) :
                       \A k \in 1..Len(P) :
                          LowerChar(S[i + k]) = LowerChar(P[k])

\* C22 witness: a pattern was found inside a longer subject written in the
\* other case.
C22_Witness ==
    /\ probe.fn = "_match_subject" /\ probe.out
    /\ Len(probe.subject_pattern) = 2
    /\ Len(probe.subject) > 2
    /\ ~Contains(probe.subject, probe.subject_pattern)

\* The file holds a JSON object of fingerprints and timestamps.
WellFormedCache(file) ==
    /\ file.kind \in {"ok", "json"}
    /\ \A k \in DOMAIN _load_cache(file) : _load_cache(file)[k] # NotAString

\* C23: _load_cache returns the empty mapping unless the cache file holds a
\* well-formed object of fingerprints and timestamps, for every state of the
\* file: missing, unreadable, no valid JSON, valid JSON of another shape.
C23_LoadEmptyUnlessWellFormed ==
    probe.fn = "_load_cache"
        => (WellFormedCache(probe.file) \/ probe.out = EmptyMap)

C25_FailedSaveDoesNotFailRun ==
    [][/\ (cpc \in {"os_save", "os_dump"} /\ cpc' = "idle"
              /\ cacheFile' = cacheFile)
          => /\ ret'.op = "oneshot" /\ ret'.success
             /\ ret'.matched = cmatched
             /\ lockHolder' = -1
       /\ \A t \in Threads :
             (tpc[t] \in {"save", "dump"} /\ tpc'[t] \notin {"save", "dump"}
                 /\ cacheFile' = cacheFile)
             => /\ tpc'[t] = "test"
                /\ lockHolder' = -1]_vars

\* C25 witness: a one-shot call has returned success with a match while the
\* file it cut is still without content.
C25_Witness ==
    /\ ret.op = "oneshot" /\ ret.success /\ ret.matched # <<>>
    /\ cacheFile = FileCorrupt
    /\ lockHolder = -1

\* The candidates of the run that just ended whose body fetch failed.
FailedCandidates ==
    {num \in lastRun.run.fetched : Msg(num).bad}

\* C26: in a one-shot run that returned, a candidate whose fetch failed is
\* neither reported nor put into the cache, and the matches and the cache of
\* the run are those of a run over the same candidates without the failed
\* ones.
C26_MessageFailureIsIsolated ==
    (lastRun.who = 0 /\ ~lastRun.run.raised)
        => LET list == lastRun.run.inspected
               rest == SelectSeq(list, LAMBDA num : num \notin FailedCandidates)
               clean == ProcessFrom(
                           [matched |-> <<>>, processed |-> lastRun.cache_in,
                            skipped |-> {}, evaluated |-> {}, fetched |-> {},
                            inspected |-> <<>>, raised |-> FALSE],
                           rest, 1, Len(rest), lastRun.cfg, Now)
           IN /\ lastRun.run.matched = clean.matched
              /\ lastRun.run.processed = clean.processed
              /\ \A num \in FailedCandidates :
                    /\ ReportsOf(num) = {}
                    /\ Fingerprint(Msg(num)) \in DOMAIN lastRun.run.processed
                          => Fingerprint(Msg(num)) \in DOMAIN lastRun.cache_in

\* C26 witness: a run that ignores the cache returned; the fetch of one
\* candidate had failed, and a candidate before it and one after it are
\* reported.
C26_Witness ==
    /\ lastRun.who = 0 /\ ~lastRun.run.raised
    /\ \E bad \in FailedCandidates :
          /\ \E num \in 1..(bad - 1) : ReportsOf(num) # {}
          /\ \E num \in (bad + 1)..SeqMail : ReportsOf(num) # {}

\* C27: a call that supplies time_range_hours looks back that many hours
\* from the clock of the run; a call that supplies days_back and no
\* time_range_hours looks back days_back days.
C27_LookbackSelection ==
    probe.fn = "execute"
        => /\ probe.time_range_hours \notin {Absent, None}
                 => probe.out = probe.now - probe.time_range_hours
           /\ (probe.time_range_hours = Absent /\ probe.days_back # Absent)
                 => probe.out = probe.now - HoursPerDay * probe.days_back

\* C28: a one-shot run that succeeded returns its matches in the order in
\* which the candidates were processed, with emails_checked the number of
\* candidates the run inspected, total_matched the number of matches and
\* cache_size the size of the cache mapping the run leaves.
C28_StatisticsOfTheRun ==
    (ret.op = "oneshot" /\ ret.success)
        => LET st == ret.statistics[1]
           IN /\ \A i, j \in 1..Len(ret.matched) :
                    i < j => ret.matched[i].num < ret.matched[j].num
              /\ st.emails_checked
                    = Len(Candidates(ret.seen, ret.cfg.max_emails))
              /\ st.total_matched = Len(ret.matched)
              /\ st.cache_size = Cardinality(DOMAIN _load_cache(cacheFile))

\* C29: a CheckRun of a monitoring loop that returns with a match goes on to
\* write the loop's cache to the file and to set latest_results to exactly
\* the matches of that run, with their number and background_mode true; a
\* run that returns without a match or that fails changes neither the file
\* nor latest_results, and nothing else sets latest_results.
C29_LoopPublishesMatchedRuns ==
    [][/\ \A t \in Threads :
             /\ (tpc[t] = "checking" /\ tpc'[t] # "checking")
                   => /\ lastRun'.who = t
                      /\ IF ~lastRun'.run.raised /\ lastRun'.run.matched # <<>>
                         THEN /\ tpc'[t] = "save"
                              /\ tmatched'[t] = lastRun'.run.matched
                              /\ tproc'[t] = lastRun'.run.processed
                         ELSE /\ tpc'[t] = "test"
                              /\ ctxLatest' = ctxLatest
                              /\ cacheFile' = cacheFile
             /\ (tpc[t] = "save" /\ tpc'[t] # "save")
                   => /\ tpc'[t] = "dump"
                      /\ tmatched'[t] = tmatched[t] /\ tproc'[t] = tproc[t]
             /\ (tpc[t] = "dump" /\ tpc'[t] # "dump")
                   => /\ cacheFile' = FileOk(tproc[t])
                      /\ ctxLatest' =
                            << [matched_emails |-> tmatched[t],
                                total_matched |-> Len(tmatched[t]),
                                background_mode |-> TRUE] >>
                      /\ tmatched[t] # <<>>
       /\ ctxLatest' # ctxLatest
             => \E t \in Threads : tpc[t] = "dump" /\ tpc'[t] # "dump"]_vars

\* C29 witness: a loop has published the one match of its run and the file
\* holds the loop's cache with that message in it.
C29_Witness ==
    \E t \in Threads :
        /\ tpc[t] = "test"
        /\ ctxLatest # <<>>
        /\ ctxLatest[1].total_matched = 1
        /\ ctxLatest[1].matched_emails[1].num = 1
        /\ cacheFile = FileOk(tproc[t])
        /\ Fingerprint(Msg(1)) \in DOMAIN tproc[t]

\* C30: when a one-shot run has returned and no candidate it inspected
\* matches the filters, the run reports no match, and the mapping execute
\* goes on to save is the cache as it was before the run and as the file
\* holds it, whether use_cache is set or not.
C30_NoMatchLeavesCache ==
    (/\ lastRun.who = 0 /\ ~lastRun.run.raised
     /\ \A i \in 1..Len(lastRun.run.inspected) :
           MatchingPairs(lastRun.run.inspected[i]) = {})
        => /\ lastRun.run.matched = <<>>
           /\ cproc = lastRun.cache_in
           /\ cproc = _load_cache(cacheFile)

\* C31: a stop_monitoring call that joins a loop returns, even when no
\* _check_emails call of a loop ever ends; its return leaves every thread
\* where it is, so a loop that is inside a check stays inside it.
C31_StopAlwaysReturns ==
    /\ (cpc = "stop_join") ~> (cpc = "idle" /\ ret.op = "stop")
    /\ [][(cpc = "stop_join" /\ cpc' # "stop_join")
            => (cpc' = "idle" /\ ret'.op = "stop" /\ tpc' = tpc)]_vars

\* C31 witness: stop_monitoring has returned while the loop is still inside
\* the _check_emails call that was in flight, the event being set.
C31_Witness ==
    /\ ret.op = "stop" /\ cpc = "idle" /\ stopFlag
    /\ monThread # 0 /\ tpc[monThread] = "checking"

\* C32: a start that waits for a prior loop waits for a bounded time only:
\* while the prior loop is inside a _check_emails call, which may last for
\* ever, the start is able to go on to spawn the new loop and return.
C32_StartWaitIsBounded ==
    (cpc = "bg_join" /\ monThread # 0 /\ tpc[monThread] = "checking")
        => ENABLED StartSpawn

\* Who is between the open and the end of json.dump in _save_cache: 0 is
\* the foreground caller, t a monitoring thread.
Writers ==
    (IF cpc = "os_dump" THEN {0} ELSE {}) \cup {t \in Threads : tpc[t] = "dump"}

\* C33: at most one _save_cache is writing the cache file at any time, and
\* the one that writes holds _cache_lock; the file is cut only while
\* somebody writes it.
C33_OneWriterAtATime ==
    /\ Cardinality(Writers) <= 1
    /\ \A w \in Writers : lockHolder = w
    /\ lockHolder # -1 => lockHolder \in Writers
    /\ cacheFile = FileCorrupt => Writers # {}

\* C33 witness: the foreground call is writing the file while a loop has a
\* match to save and waits for the lock.
C33_Witness ==
    /\ cpc = "os_dump" /\ lockHolder = 0
    /\ \E t \in Threads : tpc[t] = "save"

\* The parts of ps that are of content type and no attachment, in order.
TextParts(ps, type) ==
    SelectSeq(ps, LAMBDA part : part.type = type /\ ~part.attachment)

\* The payloads of parts ps one after the other.
RECURSIVE Joined(_)
Joined(ps) == IF ps = <<>> THEN <<>> ELSE Head(ps).payload \o Joined(Tail(ps))

\* C34: the content extracted from a multipart message is the text of its
\* text/plain parts that are no attachments when it has one, whatever the
\* order of the parts; without one it is the first text/html part that is no
\* attachment, tags removed; attachments contribute nothing.
C34_PlainTextPreferred ==
    probe.fn = "_extract_email_content"
        => LET plain == TextParts(probe.parts, "text/plain")
               html == TextParts(probe.parts, "text/html")
           IN probe.out =
                 IF plain # <<>> THEN Strip(Joined(plain))
                 ELSE IF html # <<>>
                 THEN Strip(RemoveTags(html[1].payload, 1))
                 ELSE <<>>

\* C35: a completed one-shot run loses no entry of the cache file: the
\* mapping its save writes over the file holds every fingerprint the file
\* holds when the save opens it.
C35_SaveKeepsEntries ==
    [][(cpc = "os_save" /\ cpc' = "os_dump")
          => DOMAIN _load_cache(cacheFile) \subseteq DOMAIN cproc]_vars

\* C36: with a one-shot call and a monitoring loop at work on one instance,
\* both using the cache, neither overwrites away what the other has saved:
\* the mapping a save writes holds every fingerprint the file holds when the
\* save opens it.
C36_NoLostUpdate ==
    [][/\ (cpc = "os_save" /\ cpc' = "os_dump" /\ ccfg.use_cache)
             => DOMAIN _load_cache(cacheFile) \subseteq DOMAIN cproc
       /\ \A t \in Threads :
             (tpc[t] = "save" /\ tpc'[t] = "dump" /\ tcfg[t].use_cache)
                => DOMAIN _load_cache(cacheFile) \subseteq DOMAIN tproc[t]]_vars

\* C37: every _check_emails call of a monitoring loop, the first one
\* included, begins at a moment when the stop event is not set.
C37_NoCheckBeginsAfterStop ==
    [][\A t \in Threads :
          (tpc[t] # "checking" /\ tpc'[t] = "checking") => ~stopFlag]_vars

\* C38: every fingerprint a run adds to the cache mapping of a monitoring
\* loop belongs to a match of that run, and the loop goes on to publish the
\* matches of the run.
C38_CachedMeansPublished ==
    lastRun.who \in Threads
        => \A k \in DOMAIN tproc[lastRun.who] \ DOMAIN lastRun.cache_in :
              /\ \E r \in 1..Len(lastRun.run.matched) :
                    lastRun.run.matched[r].email_id = k
              /\ tpc[lastRun.who] = "save"
              /\ tmatched[lastRun.who] = lastRun.run.matched

\* C39: a _load_cache that runs beside a _save_cache returns the mapping
\* the file stood for before the save or the mapping the save writes.
C39_LoadIsASnapshot ==
    (probe.fn = "args" /\ probe.of = "_save_cache" /\ probe.loaded # <<>>)
        => probe.loaded[1] \in {probe.before, probe.m}

\* C40: when execute(background_mode=True) returns, the stop event is clear
\* and the loop it spawned is alive at its start; from then on the event is
\* set only by a stop_monitoring() or a further start that the caller issues
\* to the live monitor, and a loop ends only as the monitor, with the event
\* set: a stop addressed to the predecessor does not end the new loop.
C40_RestartNotCancelled ==
    [][/\ ret'.op = "start"
            => /\ ~stopFlag'
               /\ Alive(monThread)'
               /\ tpc'[monThread'] = "load"
               /\ \A t \in Threads \ {monThread'} : ~Alive(t)'
       /\ (~stopFlag /\ stopFlag')
            => /\ cpc = "idle" /\ cpc' \in {"stop_join", "bg_join"}
               /\ Alive(monThread)
       /\ \A t \in Threads :
             (Alive(t) /\ ~Alive(t)') => (stopFlag /\ t = monThread)]_vars

\* C40 witness: the first loop has been stopped and has ended, and the loop
\* of the second start is at a periodic run with the event clear.
C40_Witness ==
    /\ monThread = 2 /\ tpc[1] = "done"
    /\ tpc[2] = "periodic" /\ ~stopFlag
====
